---- MODULE Spec2Model ----
(***************************************************************************)
(* Model of the crate content read path of MCPH-webapp:                    *)
(*   - GET /api/crates/[id]/content      (src/unnamed/part_000)            *)
(*   - getCrateMetadata, fromFirestoreData (src/services/firebaseService.ts)*)
(* One GET request is followed from the metadata lookup to its response.   *)
(* The collaborators (Firestore, the identity-token verifier, the content  *)
(* store) answer nondeterministically: they return or they throw.          *)
(* The metric and event sinks, the monthly usage counters and the API key  *)
(* records of firebaseService.ts are modelled next to it, each under its   *)
(* own specification (SpecSinks, SpecUsage, SpecKeys).                     *)
(***************************************************************************)
EXTENDS Integers, Sequences, FiniteSets, TLC

(***************************************************************************)
(* Bounds of the model.                                                    *)
(***************************************************************************)
MaxCreated == 1      \* createdAt ranges over 0..MaxCreated (in ticks)
MaxTtl     == 1      \* ttlDays ranges over 0..MaxTtl
DayTicks   == 2      \* clock ticks in one calendar day
MaxShared  == 1      \* longest stored sharedWith list
MaxSinkCalls == 3    \* sink calls followed in one behaviour
MaxCallers == 2      \* concurrent calls of the usage counters
MaxKeys == 2         \* API keys created in one behaviour

(***************************************************************************)
(* Values.                                                                 *)
(***************************************************************************)
Anonymous == "anonymous"                      \* part_000:73
Users     == {"u1", "u2"}                     \* verified subjects
Owners    == {"u1", Anonymous}                \* ownerId: a user or the sentinel
CrateIds  == {"c1"}
Tokens    == {"tok_u1", "tok_u2", "tok_bad"}  \* credentials a client may send
Times     == 0 .. (MaxCreated + MaxTtl * DayTicks + 1)

NoDoc == [exists |-> FALSE]                   \* doc.exists === false
Null  == [isNull |-> TRUE]                    \* JS null

\* JS values held in a Firestore document
JsArray(s)   == [kind |-> "array",  items |-> s]   \* ["u2", ...]
JsObject(s)  == [kind |-> "object", items |-> s]   \* {"0": "u2", ...}
Timestamp(t) == [kind |-> "timestamp", t |-> t]    \* Firestore Timestamp
JsDate(t)    == [kind |-> "date", t |-> t]         \* JS Date

RECURSIVE SeqsUpTo(_, _)
SeqsUpTo(S, n) ==
  IF n = 0 THEN {<<>>}
  ELSE LET shorter == SeqsUpTo(S, n - 1)
       IN  shorter \cup {Append(s, x) : s \in {q \in shorter : Len(q) = n - 1}, x \in S}

SharedLists == {JsArray(s) : s \in SeqsUpTo(Users, MaxShared)}
               \cup {JsObject(s) : s \in SeqsUpTo(Users, MaxShared)}

\* The documents of the crates collection (Crate, spec section 3).
CrateDocs ==
  [exists    : {TRUE},
   ownerId   : Owners,
   createdAt : {Timestamp(t) : t \in 0 .. MaxCreated},
   ttlDays   : 0 .. MaxTtl,
   shared    : [public : BOOLEAN, passwordProtected : BOOLEAN,
                sharedWith : SharedLists]]

\* Authorization header: absent, another scheme, or "Bearer <token>"
AuthHeaders == {[present |-> FALSE, bearer |-> FALSE, token |-> ""],
                [present |-> TRUE,  bearer |-> FALSE, token |-> ""]}
               \cup {[present |-> TRUE, bearer |-> TRUE, token |-> t] : t \in Tokens}
\* session cookie: absent, present with an empty value, or a token
SessionCookies == {[present |-> FALSE, value |-> ""],
                   [present |-> TRUE,  value |-> ""]}
                  \cup {[present |-> TRUE, value |-> t] : t \in Tokens}

NoResponse == [status |-> 0, passwordRequired |-> FALSE, body |-> "none"]

VARIABLES
  store,            \* Firestore crates collection: id -> document or NoDoc
  req,              \* the inbound request: id, authHeader, sessionCookie
  pc,               \* position of the GET handler
  crate,            \* const crate (part_000:23)
  now,              \* const now (part_000:34)
  userId,           \* let userId (part_000:73)
  isAuthenticated,  \* let isAuthenticated (part_000:74)
  response,         \* the response returned by GET
  calls,            \* collaborator calls made so far, in order
  metrics,          \* metrics collection: the "counters" doc and today's daily doc
  events,           \* number of documents of the events collection
  downloads,        \* downloadCount field of the crate documents
  sinkOut,          \* how the last sink call ended
  nSink,            \* sink calls made so far
  usage,            \* this month's usage document of each usage collection
  usageBase,        \* the counts stored before the calls started
  callers,          \* the calls of incrementApiKeyToolUsage / incrementUserToolUsage
  apiKeys,          \* apiKeys collection: key id -> record or NoKey
  nextKey,          \* number of key ids drawn by createApiKey so far
  del,              \* the deleteApiKey call
  find,             \* the findUserByApiKey call
  deletedOk         \* ids for which deleteApiKey returned true

handlerVars == <<store, req, pc, crate, now, userId, isAuthenticated, response, calls>>
sinkVars == <<metrics, events, downloads, sinkOut, nSink>>
usageVars == <<usage, usageBase, callers>>
keyVars == <<apiKeys, nextKey, del, find, deletedOk>>
svcVars == <<sinkVars, usageVars, keyVars>>
vars == <<handlerVars, svcVars>>

(***************************************************************************)
(* firebaseService.ts                                                      *)
(***************************************************************************)
\* const result = { ...data }: the spread of an array is a plain object
\* keyed "0", "1", ...; it keeps the elements but is no longer an array.
SpreadCopy(v) == JsObject(v.items)

\* fromFirestoreData applied to a nested value of the document:
\* a Timestamp (has toDate) becomes a Date, any other object (arrays
\* included: typeof [] === "object") is replaced by the converted spread copy.
fromFirestoreValue(v) ==
  IF v.kind = "timestamp" THEN JsDate(v.t) ELSE SpreadCopy(v)

fromFirestoreData(data) ==
  IF data = NoDoc THEN Null
  ELSE [data EXCEPT !.createdAt = fromFirestoreValue(@),
                    !.shared = [@ EXCEPT !.sharedWith = fromFirestoreValue(@)]]

\* toFirestoreData applied to a nested value: a Date is kept, any other
\* object (arrays included) is replaced by the converted spread copy.
toFirestoreValue(v) ==
  IF v.kind = "date" THEN v ELSE SpreadCopy(v)

toFirestoreData(data) ==
  [data EXCEPT !.createdAt = toFirestoreValue(@),
               !.shared = [@ EXCEPT !.sharedWith = toFirestoreValue(@)]]

\* doc(id).set(dataToSave): Firestore stores a Date as a Timestamp
firestoreSet(data) == [data EXCEPT !.createdAt = Timestamp(@.t)]

\* getCrateMetadata: the document read either throws (caught, null) or
\* returns the snapshot; a missing document gives null.
getCrateMetadata(threw, doc) ==
  IF threw THEN Null
  ELSE IF ~doc.exists THEN Null
  ELSE fromFirestoreData(doc)

(***************************************************************************)
(* Collaborators of the route handler.                                     *)
(***************************************************************************)
\* auth.verifyIdToken: the subject of a genuine token; it throws on a
\* forged token, and on any token when the verifier is unavailable.
TokenSubject(token) ==
  CASE token = "tok_u1" -> "u1"
    [] token = "tok_u2" -> "u2"
    [] OTHER            -> ""

verifyIdToken(token, unavailable) ==
  IF unavailable \/ TokenSubject(token) = ""
  THEN [ok |-> FALSE, uid |-> ""]
  ELSE [ok |-> TRUE,  uid |-> TokenSubject(token)]

\* getCrateContent (storageService): the outcomes of the content fetch.  It
\* fails when the record vanished since the metadata read, and may fail
\* for any record when the storage is unreachable.
contentThrows(doc) == IF doc.exists THEN BOOLEAN ELSE {TRUE}

\* one collaborator call: the function, the credential source it served
\* ("header", "cookie" or "-"), its argument and whether it returned
Call(fn, via, arg, ok) == [fn |-> fn, via |-> via, arg |-> arg, ok |-> ok]

(***************************************************************************)
(* GET (src/unnamed/part_000)                                              *)
(***************************************************************************)
\* expirationDate.setDate(expirationDate.getDate() + crate.ttlDays)
expirationDate(c) == c.createdAt.t + c.ttlDays * DayTicks

\* variant: a crate read at its expiry instant counts as expired
isExpired_inclusive(c, t) == t >= expirationDate(c)

\* variant: the comparison is turned around
isExpired_reversed(c, t) == t < expirationDate(c)

\* if (now > expirationDate)
isExpired(c, t) == t > expirationDate(c)

\* if (authHeader && authHeader.startsWith("Bearer "))
hasBearer(authHeader) == authHeader.present /\ authHeader.bearer

\* variant: the cookie is verified even after the header authenticated
trySession_always(authenticated, sessionCookie) ==
  sessionCookie.present /\ sessionCookie.value # ""

\* if (!isAuthenticated && sessionCookie && sessionCookie.value)
trySession(authenticated, sessionCookie) ==
  ~authenticated /\ sessionCookie.present /\ sessionCookie.value # ""

\* variant: the verifier's exception is not caught around the call
tryVerify_rethrow(res, curUser, curAuth) ==
  IF res.ok
  THEN [userId |-> res.uid, isAuthenticated |-> TRUE, thrown |-> FALSE]
  ELSE [userId |-> curUser, isAuthenticated |-> curAuth, thrown |-> TRUE]

\* try { decodedToken = await auth.verifyIdToken(..); userId = ..uid;
\*       isAuthenticated = true } catch (error) { console.warn(..) }
\* The result is the pair of locals after the block, and whether an
\* exception leaves the block.
tryVerify(res, curUser, curAuth) ==
  IF res.ok
  THEN [userId |-> res.uid, isAuthenticated |-> TRUE, thrown |-> FALSE]
  ELSE [userId |-> curUser, isAuthenticated |-> curAuth, thrown |-> FALSE]

\* const isOwner = crate.ownerId === userId
isOwner(c, uid) == c.ownerId = uid

\* const isPublic = crate.shared.public
isPublic(c) == c.shared.public

\* Array.isArray(crate.shared.sharedWith) && crate.shared.sharedWith.includes(userId)
isSharedWithUser(c, uid) ==
  /\ c.shared.sharedWith.kind = "array"
  /\ \E i \in 1 .. Len(c.shared.sharedWith.items) : c.shared.sharedWith.items[i] = uid

\* variant: the owner is challenged too
passwordGate_ownerChallenged(c, uid) ==
  isPublic(c) /\ c.shared.passwordProtected

\* variant: members of the sharing list are exempt from the challenge
passwordGate_sharedExempt(c, uid) ==
  isPublic(c) /\ c.shared.passwordProtected /\ ~isOwner(c, uid)
  /\ ~\E i \in 1 .. Len(c.shared.sharedWith.items) : c.shared.sharedWith.items[i] = uid

\* variant: the challenge does not look at the public flag
passwordGate_ignoresPublic(c, uid) ==
  c.shared.passwordProtected /\ ~isOwner(c, uid)

\* if (isPublic && crate.shared.passwordProtected && !isOwner)
passwordGate(c, uid) ==
  isPublic(c) /\ c.shared.passwordProtected /\ ~isOwner(c, uid)

\* variant: only unauthenticated requesters are refused
forbiddenGate_anonymousOnly(c, uid) ==
  ~isOwner(c, uid) /\ ~isPublic(c) /\ ~isSharedWithUser(c, uid) /\ uid = Anonymous

\* variant: the negation of isPublic is lost
forbiddenGate_publicNegationLost(c, uid) ==
  ~isOwner(c, uid) /\ isPublic(c) /\ ~isSharedWithUser(c, uid)

\* if (!isOwner && !isPublic && !isSharedWithUser)
forbiddenGate(c, uid) ==
  ~isOwner(c, uid) /\ ~isPublic(c) /\ ~isSharedWithUser(c, uid)

\* the two early returns of the access check, in the order of the code
decide(c, uid) ==
  IF passwordGate(c, uid) THEN "passwordRequired"
  ELSE IF forbiddenGate(c, uid) THEN "forbidden"
  ELSE "allow"

\* NextResponse.json({ error }, { status })
errorResponse(status) ==
  [status |-> status, passwordRequired |-> FALSE, body |-> "error"]

\* NextResponse.json({ error, passwordRequired: true }, { status: 401 })
passwordResponse ==
  [status |-> 401, passwordRequired |-> TRUE, body |-> "error"]

\* new NextResponse(buffer, { headers })
contentResponse ==
  [status |-> 200, passwordRequired |-> FALSE, body |-> "bytes"]

\* the counters of the metrics collection that the sinks write
MetricNames == {"downloads", "events"}

NoSinkCall == [fn |-> "none", failAt |-> 0, kind |-> "none", value |-> 0]

\* no sink has been called yet
SinksInit ==
  /\ metrics = [total |-> [m \in MetricNames |-> 0], daily |-> [m \in MetricNames |-> 0]]
  /\ events = 0
  /\ downloads = [c \in CrateIds |-> 0]
  /\ sinkOut = NoSinkCall
  /\ nSink = 0

\* firebaseService.ts:431, 480  the usage collections, one document each
\* (one API key, one user, one month)
UsageCollections == {"apiKeyUsage", "userUsage"}
UsageFns == {"incrementApiKeyToolUsage", "incrementUserToolUsage"}
Callers == 1 .. MaxCallers

NoUsageDoc == [exists |-> FALSE, count |-> 0]
NoReturn == [count |-> -1, remaining |-> -1]

\* no usage call is running and nothing has been counted
UsageIdle ==
  /\ usage = [col \in UsageCollections |-> NoUsageDoc]
  /\ usageBase = [col \in UsageCollections |-> 0]
  /\ callers = [c \in Callers |->
                  [fn |-> "incrementApiKeyToolUsage", pc |-> "idle", mine |-> 0, ret |-> NoReturn]]

\* firebaseService.ts:356-365  ApiKeyRecord; used stands for lastUsedAt
KeyIds == 1 .. MaxKeys
NoKey == [exists |-> FALSE, userId |-> "", hashedKey |-> 0, used |-> FALSE]
NoDelete == [pc |-> "idle", userId |-> "", keyId |-> 0, result |-> "none"]
NoFind == [pc |-> "idle", apiKey |-> 0, docId |-> 0, result |-> "none", userId |-> ""]

\* no API key exists and no key operation is running
KeysInit ==
  /\ apiKeys = [k \in KeyIds |-> NoKey]
  /\ nextKey = 0
  /\ del = NoDelete
  /\ find = NoFind
  /\ deletedOk = {}

ServicesInit == SinksInit /\ UsageIdle /\ KeysInit

Init ==
  /\ ServicesInit
  /\ store \in [CrateIds -> CrateDocs \cup {NoDoc}]
  /\ req \in [id : CrateIds, authHeader : AuthHeaders, sessionCookie : SessionCookies]
  /\ pc = "metadata"
  /\ crate = Null
  /\ now = 0
  /\ userId = Anonymous
  /\ isAuthenticated = FALSE
  /\ response = NoResponse
  /\ calls = <<>>

\* part_000:22-27  const crate = await getCrateMetadata(id); if (!crate) 404
GetMetadata ==
  /\ pc = "metadata"
  /\ \E threw \in BOOLEAN :
       LET c == getCrateMetadata(threw, store[req.id]) IN
       /\ calls' = Append(calls, Call("getCrateMetadata", "-", req.id, ~threw))
       /\ crate' = c
       /\ IF c = Null
          THEN /\ response' = errorResponse(404)
               /\ pc' = "done"
          ELSE /\ pc' = "expiry"
               /\ UNCHANGED response
  /\ UNCHANGED <<store, req, now, userId, isAuthenticated>>
  /\ UNCHANGED svcVars

\* part_000:33-46  expiration check
CheckExpiry ==
  /\ pc = "expiry"
  /\ \E t \in Times :
       /\ now' = t
       /\ IF isExpired(crate, t)
          THEN /\ response' = errorResponse(410)
               /\ pc' = "done"
          ELSE /\ pc' = "bearer"
               /\ UNCHANGED response
  /\ UNCHANGED <<store, req, crate, userId, isAuthenticated, calls>>
  /\ UNCHANGED svcVars

\* part_000:73-93  token auth from the Authorization header
VerifyBearer ==
  /\ pc = "bearer"
  /\ IF hasBearer(req.authHeader)
     THEN \E unavailable \in BOOLEAN :
            LET res == verifyIdToken(req.authHeader.token, unavailable)
                out == tryVerify(res, userId, isAuthenticated) IN
            /\ calls' = Append(calls, Call("verifyIdToken", "header", req.authHeader.token, res.ok))
            /\ userId' = out.userId
            /\ isAuthenticated' = out.isAuthenticated
            /\ IF out.thrown
               THEN /\ response' = errorResponse(500)
                    /\ pc' = "done"
               ELSE /\ pc' = "session"
                    /\ UNCHANGED response
     ELSE /\ pc' = "session"
          /\ UNCHANGED <<userId, isAuthenticated, calls, response>>
  /\ UNCHANGED <<store, req, crate, now>>
  /\ UNCHANGED svcVars

\* part_000:95-113  session cookie, then the anonymous fallback
VerifySession ==
  /\ pc = "session"
  /\ IF trySession(isAuthenticated, req.sessionCookie)
     THEN \E unavailable \in BOOLEAN :
            LET res == verifyIdToken(req.sessionCookie.value, unavailable)
                out == tryVerify(res, userId, isAuthenticated) IN
            /\ calls' = Append(calls, Call("verifyIdToken", "cookie", req.sessionCookie.value, res.ok))
            /\ userId' = out.userId
            /\ isAuthenticated' = out.isAuthenticated
            /\ IF out.thrown
               THEN /\ response' = errorResponse(500)
                    /\ pc' = "done"
               ELSE /\ pc' = "authorize"
                    /\ UNCHANGED response
     ELSE /\ pc' = "authorize"
          /\ UNCHANGED <<userId, isAuthenticated, calls, response>>
  /\ UNCHANGED <<store, req, crate, now>>
  /\ UNCHANGED svcVars

\* part_000:115-154  access permissions
Authorize ==
  /\ pc = "authorize"
  /\ IF decide(crate, userId) = "passwordRequired"
     THEN /\ response' = passwordResponse
          /\ pc' = "done"
     ELSE IF decide(crate, userId) = "forbidden"
     THEN /\ response' = errorResponse(403)
          /\ pc' = "done"
     ELSE /\ pc' = "content"
          /\ UNCHANGED response
  /\ UNCHANGED <<store, req, crate, now, userId, isAuthenticated, calls>>
  /\ UNCHANGED svcVars

\* part_000:156-175  getCrateContent(id), the 200 response, or the catch: 500
FetchContent ==
  /\ pc = "content"
  /\ \E threw \in contentThrows(store[req.id]) :
       /\ calls' = Append(calls, Call("getCrateContent", "-", req.id, ~threw))
       /\ response' = IF threw THEN errorResponse(500) ELSE contentResponse
  /\ pc' = "done"
  /\ UNCHANGED <<store, req, crate, now, userId, isAuthenticated>>
  /\ UNCHANGED svcVars

Next ==
  \/ GetMetadata
  \/ CheckExpiry
  \/ VerifyBearer
  \/ VerifySession
  \/ Authorize
  \/ FetchContent

Spec == Init /\ [][Next]_vars

(***************************************************************************)
(* The read path while other requests change the crate record.             *)
(***************************************************************************)
\* the request is between its getCrateMetadata read and its content fetch
InFlight == pc \in {"expiry", "bearer", "session", "authorize", "content"}

\* the sharing settings an owner can give a crate
SharingChoices ==
  [public : BOOLEAN, passwordProtected : BOOLEAN,
   sharedWith : {JsArray(q) : q \in SeqsUpTo(Users, MaxShared)}]

\* firebaseService.ts:552-567  saveCrateMetadata, called for the crate of
\* the request with new sharing settings; a failed write changes nothing.
SaveCrateMetadata ==
  /\ InFlight
  /\ store[req.id].exists
  /\ \E sh \in SharingChoices, threw \in BOOLEAN :
       LET crateData  == [fromFirestoreData(store[req.id]) EXCEPT !.shared = sh]
           dataToSave == toFirestoreData(crateData) IN
       /\ firestoreSet(dataToSave) # store[req.id]
       /\ store' = IF threw THEN store
                   ELSE [store EXCEPT ![req.id] = firestoreSet(dataToSave)]
  /\ UNCHANGED <<req, pc, crate, now, userId, isAuthenticated, response, calls>>
  /\ UNCHANGED svcVars

\* firebaseService.ts:640-648  deleteCrateMetadata for the crate of the request
DeleteCrateMetadata ==
  /\ InFlight
  /\ store[req.id].exists
  /\ \E threw \in BOOLEAN :
       store' = IF threw THEN store ELSE [store EXCEPT ![req.id] = NoDoc]
  /\ UNCHANGED <<req, pc, crate, now, userId, isAuthenticated, response, calls>>
  /\ UNCHANGED svcVars

\* one request with a bearer credential at most, on a crate created at 0
InitRace ==
  /\ Init
  /\ ~req.sessionCookie.present
  /\ store[req.id].exists => store[req.id].createdAt.t = 0

NextRace ==
  \/ GetMetadata
  \/ CheckExpiry
  \/ VerifyBearer
  \/ VerifySession
  \/ Authorize
  \/ FetchContent
  \/ SaveCrateMetadata
  \/ DeleteCrateMetadata

SpecRace == InitRace /\ [][NextRace]_vars

(***************************************************************************)
(* Metric and event sinks (firebaseService.ts).  A sink call is a sequence *)
(* of Firestore operations; failAt names the operation that throws         *)
(* (0: none), the operations before it have taken effect.                  *)
(***************************************************************************)
Returned(v) == [kind |-> "return", value |-> v]   \* return v
ReturnedVoid == [kind |-> "void", value |-> 0]    \* Promise<void> resolved
Thrown == [kind |-> "throw", value |-> 0]         \* the exception reaches the caller

\* the handler is not serving a request
HandlerIdle ==
  /\ req = [id |-> "c1",
            authHeader |-> [present |-> FALSE, bearer |-> FALSE, token |-> ""],
            sessionCookie |-> [present |-> FALSE, value |-> ""]]
  /\ pc = "idle"
  /\ crate = Null
  /\ now = 0
  /\ userId = Anonymous
  /\ isAuthenticated = FALSE
  /\ response = NoResponse
  /\ calls = <<>>

\* a stored crate for the sinks to count downloads of
SampleDoc ==
  [exists |-> TRUE, ownerId |-> "u1", createdAt |-> Timestamp(0), ttlDays |-> MaxTtl,
   shared |-> [public |-> TRUE, passwordProtected |-> FALSE,
               sharedWith |-> JsArray(<<>>)]]

\* firebaseService.ts:195-230  incrementMetric(metric) on the metrics m.
\* Operations: 1 metricRef.set (increment), 2 metricRef.update (lastUpdated),
\* 3 dailyMetricRef.set (increment), 4 metricRef.get.  The catch returns 0.
incrementMetric(m, metric, failAt) ==
  LET afterTotal == IF failAt = 1 THEN m
                    ELSE [m EXCEPT !.total[metric] = @ + 1]
      afterDaily == IF failAt \in 1 .. 3 THEN afterTotal
                    ELSE [afterTotal EXCEPT !.daily[metric] = @ + 1]
  IN  [metrics |-> afterDaily,
       outcome |-> IF failAt = 0 THEN Returned(afterDaily.total[metric])
                   ELSE Returned(0)]

\* variant: the read in the catch block is not protected
fallbackCount_unguarded(readThrew, count) ==
  IF readThrew THEN Thrown ELSE Returned(count)

\* firebaseService.ts:627-633  the catch block of incrementCrateDownloadCount:
\* try { return doc.data()?.downloadCount || 0 } catch (e) { return 0 }
fallbackCount(readThrew, count) ==
  IF readThrew THEN Returned(0) ELSE Returned(count)

\* firebaseService.ts:294-322  logEvent: 1 the event document is set,
\* then incrementMetric counts the event; the catch returns nothing.
LogEvent ==
  /\ nSink < MaxSinkCalls
  /\ \E failAt \in 0 .. 1, mFail \in 0 .. 4 :
       LET im == incrementMetric(metrics, "events", mFail) IN
       /\ events' = IF failAt = 1 THEN events ELSE events + 1
       /\ metrics' = IF failAt = 1 THEN metrics ELSE im.metrics
       /\ sinkOut' = [fn |-> "logEvent", failAt |-> failAt,
                      kind |-> ReturnedVoid.kind, value |-> ReturnedVoid.value]
  /\ nSink' = nSink + 1
  /\ UNCHANGED <<downloads, handlerVars, usageVars, keyVars>>

\* firebaseService.ts:195-230  incrementMetric called as a sink of its own
IncrementMetric ==
  /\ nSink < MaxSinkCalls
  /\ \E metric \in MetricNames, failAt \in 0 .. 4 :
       LET im == incrementMetric(metrics, metric, failAt) IN
       /\ metrics' = im.metrics
       /\ sinkOut' = [fn |-> "incrementMetric", failAt |-> failAt,
                      kind |-> im.outcome.kind, value |-> im.outcome.value]
  /\ nSink' = nSink + 1
  /\ UNCHANGED <<events, downloads, handlerVars, usageVars, keyVars>>

\* firebaseService.ts:594-635  incrementCrateDownloadCount(crateId).
\* Operations: 1 docRef.get, 2 docRef.update (increment), then
\* incrementMetric("downloads"), 3 docRef.get.  A failure goes to the catch
\* block, which reads the count again.
IncrementCrateDownloadCount ==
  /\ nSink < MaxSinkCalls
  /\ \E crateId \in CrateIds, failAt \in 0 .. 3, mFail \in 0 .. 4, readThrew \in BOOLEAN :
       LET exists  == store[crateId].exists
           updated == failAt \notin {1, 2} /\ exists
           newDl   == IF updated THEN [downloads EXCEPT ![crateId] = @ + 1]
                      ELSE downloads
           im      == incrementMetric(metrics, "downloads", mFail)
           out     == IF failAt = 1 THEN fallbackCount(readThrew, newDl[crateId])
                      ELSE IF ~exists THEN Returned(0)
                      ELSE IF failAt \in {2, 3} THEN fallbackCount(readThrew, newDl[crateId])
                      ELSE Returned(newDl[crateId])
       IN
       /\ downloads' = newDl
       /\ metrics' = IF updated THEN im.metrics ELSE metrics
       /\ sinkOut' = [fn |-> "incrementCrateDownloadCount", failAt |-> failAt,
                      kind |-> out.kind, value |-> out.value]
  /\ nSink' = nSink + 1
  /\ UNCHANGED <<events, handlerVars, usageVars, keyVars>>

InitSinks ==
  /\ SinksInit
  /\ UsageIdle
  /\ KeysInit
  /\ HandlerIdle
  /\ store \in [CrateIds -> {SampleDoc, NoDoc}]

NextSinks ==
  \/ LogEvent
  \/ IncrementMetric
  \/ IncrementCrateDownloadCount

SpecSinks == InitSinks /\ [][NextSinks]_vars

(***************************************************************************)
(* Monthly usage counters (firebaseService.ts:431-508).  Each call writes   *)
(* an atomic increment and then reads the document back; calls for the     *)
(* same key or user interleave between the two awaits.                     *)
(***************************************************************************)
API_KEY_TOOL_CALL_LIMIT == 1000
USER_TOOL_CALL_LIMIT == 1000

usageCollection(fn) ==
  IF fn = "incrementApiKeyToolUsage" THEN "apiKeyUsage" ELSE "userUsage"

usageLimit(fn) ==
  IF fn = "incrementApiKeyToolUsage" THEN API_KEY_TOOL_CALL_LIMIT
  ELSE USER_TOOL_CALL_LIMIT

\* docRef.set({ count: FieldValue.increment(1), .. }, { merge: true })
fieldIncrement(doc) ==
  [exists |-> TRUE, count |-> (IF doc.exists THEN doc.count ELSE 0) + 1]

\* const count = doc.data()?.count || 0;
\* return { count, remaining: Math.max(0, LIMIT - count) }
usageResult(doc, limit) ==
  LET count == IF doc.exists THEN doc.count ELSE 0
  IN  [count |-> count,
       remaining |-> IF limit - count > 0 THEN limit - count ELSE 0]

\* firebaseService.ts:447-455, 496-504  await docRef.set(.., { merge: true })
UsageSet(c) ==
  /\ callers[c].pc = "set"
  /\ \E threw \in BOOLEAN :
       LET col == usageCollection(callers[c].fn)
           doc == fieldIncrement(usage[col]) IN
       IF threw
       THEN /\ callers' = [callers EXCEPT ![c].pc = "failed"]
            /\ UNCHANGED usage
       ELSE /\ usage' = [usage EXCEPT ![col] = doc]
            /\ callers' = [callers EXCEPT ![c].pc = "get", ![c].mine = doc.count]
  /\ UNCHANGED <<usageBase, handlerVars, sinkVars, keyVars>>

\* firebaseService.ts:457-459, 505-507  await docRef.get() and the return
UsageGet(c) ==
  /\ callers[c].pc = "get"
  /\ \E threw \in BOOLEAN :
       LET col == usageCollection(callers[c].fn) IN
       callers' = IF threw
                  THEN [callers EXCEPT ![c].pc = "failed"]
                  ELSE [callers EXCEPT ![c].pc = "done",
                                       ![c].ret = usageResult(usage[col], usageLimit(callers[c].fn))]
  /\ UNCHANGED <<usage, usageBase, handlerVars, sinkVars, keyVars>>

\* counts already stored when the calls start: none, or close to the limit
StartDocs ==
  {NoUsageDoc} \cup {[exists |-> TRUE, count |-> n] :
                      n \in {API_KEY_TOOL_CALL_LIMIT - 1, API_KEY_TOOL_CALL_LIMIT}}

InitUsage ==
  /\ SinksInit
  /\ KeysInit
  /\ HandlerIdle
  /\ store = [c \in CrateIds |-> NoDoc]
  /\ usage \in [UsageCollections -> StartDocs]
  /\ usageBase = [col \in UsageCollections |-> usage[col].count]
  /\ callers \in [Callers -> [fn : UsageFns, pc : {"set"}, mine : {0}, ret : {NoReturn}]]

NextUsage ==
  \/ \E c \in Callers : UsageSet(c)
  \/ \E c \in Callers : UsageGet(c)

SpecUsage == InitUsage /\ [][NextUsage]_vars

(***************************************************************************)
(* API keys (firebaseService.ts:355-429).  deleteApiKey and                *)
(* findUserByApiKey are two Firestore operations each, and other key       *)
(* operations run between them.  No operation is wrapped in a try block:   *)
(* a failing Firestore operation ends the call with an exception.          *)
(***************************************************************************)
\* crypto.randomBytes(32).toString("hex"): the secret of the k-th key
Secret(k) == 100 + k

\* hashApiKey: sha256 of the secret, one hash per secret
hashApiKey(apiKey) == 7 * apiKey + 3

\* the secrets a client may present to findUserByApiKey; 100 was never issued
LookupSecrets == {Secret(k) : k \in 0 .. MaxKeys}

\* firebaseService.ts:373-389  createApiKey(userId)
CreateApiKey ==
  /\ nextKey < MaxKeys
  /\ \E u \in Users, threw \in BOOLEAN :
       LET id     == nextKey + 1
           record == [exists |-> TRUE, userId |-> u,
                      hashedKey |-> hashApiKey(Secret(id)), used |-> FALSE] IN
       /\ nextKey' = id
       /\ apiKeys' = IF threw THEN apiKeys ELSE [apiKeys EXCEPT ![id] = record]
  /\ UNCHANGED <<del, find, deletedOk, handlerVars, sinkVars, usageVars>>

\* variant: the owner of the record is not compared
deleteAllowed_anyUser(doc, u) == doc.exists

\* if (!doc.exists || doc.data()?.userId !== userId) return false
deleteAllowed(doc, u) == doc.exists /\ doc.userId = u

\* firebaseService.ts:402-408  deleteApiKey(userId, keyId): the read and the test
DeleteApiKeyGet ==
  /\ del.pc \in {"idle", "done"}
  /\ \E u \in Users, k \in KeyIds, threw \in BOOLEAN :
       del' = IF threw
              THEN [pc |-> "done", userId |-> u, keyId |-> k, result |-> "threw"]
              ELSE IF ~deleteAllowed(apiKeys[k], u)
              THEN [pc |-> "done", userId |-> u, keyId |-> k, result |-> "false"]
              ELSE [pc |-> "delete", userId |-> u, keyId |-> k, result |-> "none"]
  /\ UNCHANGED <<apiKeys, nextKey, find, deletedOk, handlerVars, sinkVars, usageVars>>

\* firebaseService.ts:409-410  await docRef.delete(); return true
DeleteApiKeyDelete ==
  /\ del.pc = "delete"
  /\ \E threw \in BOOLEAN :
       IF threw
       THEN /\ del' = [del EXCEPT !.pc = "done", !.result = "threw"]
            /\ UNCHANGED <<apiKeys, deletedOk>>
       ELSE /\ apiKeys' = [apiKeys EXCEPT ![del.keyId] = NoKey]
            /\ del' = [del EXCEPT !.pc = "done", !.result = "true"]
            /\ deletedOk' = deletedOk \cup {del.keyId}
  /\ UNCHANGED <<nextKey, find, handlerVars, sinkVars, usageVars>>

\* firebaseService.ts:413-425  findUserByApiKey(apiKey): the query, limit(1)
FindUserQuery ==
  /\ find.pc \in {"idle", "done"}
  /\ \E a \in LookupSecrets, threw \in BOOLEAN :
       LET matches == {k \in KeyIds : apiKeys[k].exists
                                      /\ apiKeys[k].hashedKey = hashApiKey(a)} IN
       IF threw
       THEN find' = [pc |-> "done", apiKey |-> a, docId |-> 0, result |-> "threw", userId |-> ""]
       ELSE IF matches = {}
       THEN find' = [pc |-> "done", apiKey |-> a, docId |-> 0, result |-> "null", userId |-> ""]
       ELSE \E k \in matches :
              find' = [pc |-> "update", apiKey |-> a, docId |-> k, result |-> "none",
                       userId |-> apiKeys[k].userId]
  /\ UNCHANGED <<apiKeys, nextKey, del, deletedOk, handlerVars, sinkVars, usageVars>>

\* firebaseService.ts:426-428  ref.update({ lastUsedAt }) and return record;
\* update throws when the document is gone
FindUserUpdate ==
  /\ find.pc = "update"
  /\ \E threw \in BOOLEAN :
       IF threw \/ ~apiKeys[find.docId].exists
       THEN /\ find' = [find EXCEPT !.pc = "done", !.result = "threw"]
            /\ UNCHANGED apiKeys
       ELSE /\ apiKeys' = [apiKeys EXCEPT ![find.docId].used = TRUE]
            /\ find' = [find EXCEPT !.pc = "done", !.result = "record"]
  /\ UNCHANGED <<nextKey, del, deletedOk, handlerVars, sinkVars, usageVars>>

InitKeys ==
  /\ SinksInit
  /\ UsageIdle
  /\ KeysInit
  /\ HandlerIdle
  /\ store = [c \in CrateIds |-> NoDoc]

NextKeys ==
  \/ CreateApiKey
  \/ DeleteApiKeyGet
  \/ DeleteApiKeyDelete
  \/ FindUserQuery
  \/ FindUserUpdate

SpecKeys == InitKeys /\ [][NextKeys]_vars

(***************************************************************************)
(* Vocabulary of the properties.                                           *)
(***************************************************************************)
Done == pc = "done"
Doc  == store[req.id]

\* the crate exists and the handler found it not expired
Live == /\ crate # Null
        /\ pc \in {"bearer", "session", "authorize", "content"}
           \/ (Done /\ response.status # 410)

\* identity resolution is over: userId is the resolved identity
Resolved == Live /\ pc \in {"authorize", "content", "done"}

Made(fn) == {i \in 1 .. Len(calls) : calls[i].fn = fn}
ContentCalled == Made("getCrateContent") # {}
ContentOk == \E i \in Made("getCrateContent") : calls[i].ok

\* the response of a request that reached Allow
AllowOutcome ==
  /\ ContentCalled
  /\ response = IF ContentOk THEN contentResponse ELSE errorResponse(500)

\* the stored sharing list names uid
StoredSharedWith(uid) ==
  \E i \in 1 .. Len(Doc.shared.sharedWith.items) : Doc.shared.sharedWith.items[i] = uid

(***************************************************************************)
(* C1: the owner of an existing, non-expired crate always reaches Allow:   *)
(* getCrateContent is invoked and the response is 200 when it succeeds,    *)
(* whatever public, passwordProtected and sharedWith are; the owner is     *)
(* never answered 401 or 403.                                              *)
(***************************************************************************)
C1_OwnerAllowed ==
  (Resolved /\ userId = crate.ownerId) =>
     /\ response.status \notin {401, 403}
     /\ pc # "authorize" => (pc = "content" \/ AllowOutcome)

C1_Witness ==
  /\ Done /\ Live /\ userId = crate.ownerId
  /\ crate.shared.public /\ crate.shared.passwordProtected
  /\ response.status = 200

(***************************************************************************)
(* C2: a non-owner asking for an existing, non-expired crate that is       *)
(* public and password protected is answered 401 with passwordRequired     *)
(* and no content fetch, also when the sharing list names the requester.   *)
(***************************************************************************)
C2_PasswordChallenge ==
  (Resolved /\ pc # "authorize" /\ crate.shared.public
     /\ crate.shared.passwordProtected /\ userId # crate.ownerId) =>
     /\ Done
     /\ response = passwordResponse
     /\ ~ContentCalled

C2_Witness ==
  /\ Done /\ Live /\ userId # crate.ownerId
  /\ crate.shared.public /\ crate.shared.passwordProtected
  /\ StoredSharedWith(userId)
  /\ response.status = 401 /\ response.passwordRequired

(***************************************************************************)
(* C3: a non-owner asking for an existing, non-expired private crate with  *)
(* an empty sharing list is answered 403, however the identity was         *)
(* resolved (bearer token, session cookie, anonymous fallback).            *)
(***************************************************************************)
C3_PrivateForbidden ==
  (Resolved /\ pc # "authorize" /\ ~crate.shared.public
     /\ Doc.shared.sharedWith.items = <<>> /\ userId # crate.ownerId) =>
     /\ Done
     /\ response = errorResponse(403)

C3_Witness ==
  /\ Done /\ Live /\ ~crate.shared.public
  /\ Doc.shared.sharedWith.items = <<>>
  /\ isAuthenticated /\ userId # crate.ownerId
  /\ \E i \in Made("verifyIdToken") : calls[i].via = "cookie" /\ calls[i].ok
  /\ response.status = 403

(***************************************************************************)
(* C4: on an existing, non-expired private crate a requester named in the  *)
(* stored sharedWith list reaches Allow (200 when the content fetch        *)
(* succeeds), and a non-owner who is not named gets 403.                   *)
(* The code does not do this: fromFirestoreData turns the stored array     *)
(* into a plain object, Array.isArray is then false for every crate read   *)
(* through getCrateMetadata, and the named requester gets 403.             *)
(***************************************************************************)
C4_SharedUserAllowed ==
  (Resolved /\ pc # "authorize" /\ ~crate.shared.public
     /\ Doc.shared.sharedWith.kind = "array" /\ userId # crate.ownerId) =>
     IF StoredSharedWith(userId)
     THEN pc = "content" \/ AllowOutcome
     ELSE Done /\ response = errorResponse(403)

(***************************************************************************)
(* C5: an existing crate is answered 410 exactly when the request time is  *)
(* strictly after createdAt + ttlDays days; at the expiry instant it is    *)
(* not expired.  The answer is the same for every requester and every      *)
(* visibility setting, the owner included.                                 *)
(***************************************************************************)
ExpiryInstant == Doc.createdAt.t + Doc.ttlDays * DayTicks

C5_ExpiredExactly ==
  (crate # Null /\ pc \notin {"metadata", "expiry"}) =>
     /\ (response.status = 410) <=> (now > ExpiryInstant)
     /\ now > ExpiryInstant => (Done /\ response = errorResponse(410))

C5_Witness ==
  /\ Done /\ response.status = 410
  /\ now = ExpiryInstant + 1
  /\ Doc.ownerId = "u1"
  /\ req.authHeader.bearer /\ req.authHeader.token = "tok_u1"

(***************************************************************************)
(* C6: the resolved identity is the subject of the bearer token when one   *)
(* is present and verifies, also when a valid session cookie is present;   *)
(* otherwise the subject of the session cookie when one is present and     *)
(* verifies; otherwise the anonymous sentinel.                             *)
(***************************************************************************)
VerifiedVia(via) ==
  \E i \in Made("verifyIdToken") : calls[i].via = via /\ calls[i].ok
TriedVia(via) ==
  \E i \in Made("verifyIdToken") : calls[i].via = via

C6_IdentityPrecedence ==
  Resolved =>
     /\ (req.authHeader.present /\ req.authHeader.bearer) => TriedVia("header")
     /\ (~VerifiedVia("header") /\ req.sessionCookie.present
           /\ req.sessionCookie.value # "") => TriedVia("cookie")
     /\ userId = IF VerifiedVia("header") THEN TokenSubject(req.authHeader.token)
                 ELSE IF VerifiedVia("cookie") THEN TokenSubject(req.sessionCookie.value)
                 ELSE Anonymous

C6_Witness ==
  /\ Resolved
  /\ req.authHeader.bearer /\ req.authHeader.token = "tok_u1"
  /\ req.sessionCookie.value = "tok_u2"
  /\ VerifiedVia("header")
  /\ userId = "u1"

(***************************************************************************)
(* C7: a failure of the identity-token verifier never becomes an error     *)
(* response.  With every presented credential rejected the request goes on *)
(* as anonymous, a public crate without password still reaches Allow, and  *)
(* a 500 only ever comes from the content fetch.                           *)
(***************************************************************************)
C7_VerifierFailureSwallowed ==
  /\ response.status = 500 => (ContentCalled /\ ~ContentOk)
  /\ (Resolved /\ ~VerifiedVia("header") /\ ~VerifiedVia("cookie")) =>
        (userId = Anonymous /\ ~isAuthenticated)
  /\ (Resolved /\ pc # "authorize" /\ crate.shared.public
        /\ ~crate.shared.passwordProtected) =>
        (pc = "content" \/ AllowOutcome)

C7_Witness ==
  /\ Done /\ Live
  /\ crate.shared.public /\ ~crate.shared.passwordProtected
  /\ TriedVia("header") /\ TriedVia("cookie")
  /\ ~VerifiedVia("header") /\ ~VerifiedVia("cookie")
  /\ userId = Anonymous /\ crate.ownerId # Anonymous
  /\ response.status = 200

(***************************************************************************)
(* C8: getCrateContent is invoked only after the decision is Allow (the    *)
(* crate exists, is not expired, and the requester is the owner, or the    *)
(* crate is public without password, or it is private and shared with the  *)
(* requester).  A 404, 410, 401 or 403 response is never preceded by a     *)
(* content call and never carries content bytes.                           *)
(***************************************************************************)
C8_ContentOnlyAfterAllow ==
  /\ ContentCalled =>
        /\ crate # Null
        /\ ~(now > ExpiryInstant)
        /\ \/ userId = Doc.ownerId
           \/ Doc.shared.public /\ ~Doc.shared.passwordProtected
           \/ ~Doc.shared.public /\ StoredSharedWith(userId)
  /\ response.status \in {404, 410, 401, 403} =>
        (~ContentCalled /\ response.body # "bytes")
  /\ response.body = "bytes" => (ContentOk /\ response.status = 200)

C8_Witness ==
  /\ Done /\ ContentCalled /\ ContentOk
  /\ userId # crate.ownerId
  /\ response.body = "bytes"

(***************************************************************************)
(* C9: an unexpected failure of the metadata store or of the content       *)
(* fetch gives a 500 response, and a 404 response means that the metadata  *)
(* store does not know the identifier.                                     *)
(* The code does not do this: getCrateMetadata catches the failure of the  *)
(* document read and returns null, which the handler answers with 404.     *)
(***************************************************************************)
C9_FailureIs500 ==
  Done =>
     /\ (\E i \in 1 .. Len(calls) :
           calls[i].fn \in {"getCrateMetadata", "getCrateContent"} /\ ~calls[i].ok)
        => response.status = 500
     /\ response.status = 404 => Doc = NoDoc

(***************************************************************************)
(* C10: on a private crate the outcome does not depend on                  *)
(* passwordProtected: the same request against the crate with the flag     *)
(* flipped is decided the same way, and a private crate is never answered  *)
(* 401 passwordRequired.                                                   *)
(***************************************************************************)
FlagFlipped == [crate EXCEPT !.shared.passwordProtected = ~@]

C10_PrivateIgnoresPassword ==
  (Resolved /\ pc # "authorize" /\ ~crate.shared.public) =>
     /\ response.status # 401 /\ ~response.passwordRequired
     /\ (response.status = 403) <=> (decide(FlagFlipped, userId) = "forbidden")
     /\ (pc = "content" \/ ContentCalled) <=> (decide(FlagFlipped, userId) = "allow")

C10_Witness ==
  /\ Done /\ Live
  /\ ~crate.shared.public /\ crate.shared.passwordProtected
  /\ userId # crate.ownerId
  /\ response.status = 403

(***************************************************************************)
(* C12: the stages run in the order identity resolution, expiration check, *)
(* authorization decision, content retrieval, response assembly: the       *)
(* identity-token verifier is consulted before the expiration check is     *)
(* evaluated.                                                              *)
(* The code runs the expiration check first (part_000:33-46) and the       *)
(* verifier afterwards (part_000:76-108), so C12_IdentityBeforeExpiry      *)
(* fails.  What holds (C12_ExpiryBeforeIdentity): metadata lookup, then    *)
(* expiration check, then identity resolution, then authorization, then    *)
(* content retrieval; the verifier is consulted only for a crate that was  *)
(* found not expired.                                                      *)
(***************************************************************************)
ExpiryEvaluated == crate # Null /\ pc \notin {"metadata", "expiry"}

IdentityResolutionOver ==
  /\ (req.authHeader.present /\ req.authHeader.bearer) => TriedVia("header")
  /\ (~VerifiedVia("header") /\ req.sessionCookie.present
        /\ req.sessionCookie.value # "") => TriedVia("cookie")

C12_IdentityBeforeExpiry == ExpiryEvaluated => IdentityResolutionOver

C12_ExpiryBeforeIdentity ==
  /\ calls # <<>> => calls[1].fn = "getCrateMetadata"
  /\ Made("verifyIdToken") # {} => (ExpiryEvaluated /\ ~(now > ExpiryInstant))
  /\ (pc \in {"authorize", "content"} \/ response.status \in {401, 403})
        => IdentityResolutionOver
  /\ \A i \in Made("getCrateContent") :
        /\ i = Len(calls)
        /\ IdentityResolutionOver
        /\ Done

C12_Witness ==
  /\ Done /\ response.status = 200
  /\ TriedVia("header") /\ TriedVia("cookie")
  /\ Len(calls) = 4

(***************************************************************************)
(* C13: nothing is retried within a request.  The verifier is called at    *)
(* most once per presented credential, the session cookie only when the    *)
(* bearer token was absent or failed; getCrateMetadata is called exactly   *)
(* once; getCrateContent at most once, and its failure is answered 500     *)
(* without another attempt.                                                *)
(***************************************************************************)
CallsVia(via) == {i \in Made("verifyIdToken") : calls[i].via = via}

C13_NoRetry ==
  /\ Cardinality(CallsVia("header")) <= 1
  /\ Cardinality(CallsVia("cookie")) <= 1
  /\ Cardinality(Made("verifyIdToken")) <= 2
  /\ TriedVia("header") => (req.authHeader.present /\ req.authHeader.bearer)
  /\ TriedVia("cookie") => (req.sessionCookie.present /\ ~VerifiedVia("header"))
  /\ Cardinality(Made("getCrateMetadata")) = IF pc = "metadata" THEN 0 ELSE 1
  /\ Cardinality(Made("getCrateContent")) <= 1
  /\ (ContentCalled /\ ~ContentOk) => (Done /\ response = errorResponse(500))

C13_Witness ==
  /\ Done
  /\ Cardinality(Made("verifyIdToken")) = 2
  /\ ~VerifiedVia("header") /\ VerifiedVia("cookie")
  /\ ContentCalled /\ ~ContentOk
  /\ response.status = 500

(***************************************************************************)
(* C15: a request none of whose credentials verified is never treated as   *)
(* the owner: on an existing, non-expired crate that is private with an    *)
(* empty sharing list it gets 403, on one that is public and password      *)
(* protected it gets 401, also when ownerId is the sentinel of             *)
(* anonymous-owned crates.                                                 *)
(* The code does not do this: userId starts as "anonymous" (part_000:73),  *)
(* so isOwner (part_000:116) is true on a crate owned by "anonymous" and   *)
(* the unauthenticated request passes both gates.                          *)
(***************************************************************************)
C15_UnverifiedNeverOwner ==
  (Resolved /\ pc # "authorize"
     /\ ~VerifiedVia("header") /\ ~VerifiedVia("cookie")) =>
     /\ (~crate.shared.public /\ Doc.shared.sharedWith.items = <<>>)
           => (Done /\ response = errorResponse(403))
     /\ (crate.shared.public /\ crate.shared.passwordProtected)
           => (Done /\ response = passwordResponse)

(***************************************************************************)
(* C16: when the crate record is changed or removed between the handler's  *)
(* getCrateMetadata read and its getCrateContent call, content is returned *)
(* with 200 only if the requester is permitted by the configuration in     *)
(* force at the moment of the content fetch.                               *)
(* The code does not do this: it decides on the snapshot read at           *)
(* part_000:23 and never looks at the record again (the crate returned by  *)
(* getCrateContent at part_000:157 is not used), so a crate made private   *)
(* or password protected in between is still served.                       *)
(***************************************************************************)
PermittedNow(uid) ==
  /\ Doc.exists
  /\ \/ uid = Doc.ownerId
     \/ Doc.shared.public /\ ~Doc.shared.passwordProtected
     \/ ~Doc.shared.public /\ StoredSharedWith(uid)

C16_FetchHonoursCurrentRecord ==
  (Done /\ response.status = 200) => PermittedNow(userId)

(***************************************************************************)
(* C11: the metric and event sinks never fail their caller.  logEvent,     *)
(* incrementMetric and incrementCrateDownloadCount end with a normal       *)
(* return (nothing, 0, or the last readable count) whichever of their      *)
(* Firestore operations fails.                                             *)
(***************************************************************************)
C11_SinksNeverThrow ==
  /\ sinkOut.kind # "throw"
  /\ sinkOut.fn = "logEvent" => sinkOut.kind = "void"
  /\ sinkOut.fn = "incrementMetric" =>
        /\ sinkOut.kind = "return"
        /\ sinkOut.value \in {0} \cup {metrics.total[m] : m \in MetricNames}
        /\ sinkOut.failAt # 0 => sinkOut.value = 0
  /\ sinkOut.fn = "incrementCrateDownloadCount" =>
        /\ sinkOut.kind = "return"
        /\ sinkOut.value \in {0} \cup {downloads[c] : c \in CrateIds}

C11_Witness ==
  /\ sinkOut.fn = "incrementCrateDownloadCount"
  /\ sinkOut.failAt = 3
  /\ sinkOut.kind = "return"
  /\ sinkOut.value = 0
  /\ \E c \in CrateIds : downloads[c] > 0

(***************************************************************************)
(* C14: incrementApiKeyToolUsage and incrementUserToolUsage return the     *)
(* count produced by their own increment (the previous stored count plus   *)
(* 1) with remaining = max(0, 1000 - count), also when calls for the same  *)
(* key interleave; after all calls returned the stored count has grown by  *)
(* the number of calls.                                                    *)
(* The code does not do this: the count is read back by a separate get     *)
(* after the increment, so a call returns the increments that other calls  *)
(* wrote in between as well.                                               *)
(***************************************************************************)
CallsOn(col) == {c \in Callers : usageCollection(callers[c].fn) = col}

C14_ReturnsOwnIncrement ==
  /\ \A c \in Callers :
        callers[c].pc = "done" =>
           /\ callers[c].ret.count = callers[c].mine
           /\ callers[c].ret.remaining =
                 IF 1000 - callers[c].ret.count > 0 THEN 1000 - callers[c].ret.count ELSE 0
  /\ (\A c \in Callers : callers[c].pc = "done") =>
        \A col \in UsageCollections :
           Cardinality(CallsOn(col)) > 0 =>
              usage[col].count = usageBase[col] + Cardinality(CallsOn(col))

(***************************************************************************)
(* C17: deleteApiKey(userId, keyId) removes the key record only when a     *)
(* record with that id exists and belongs to userId; for a missing key or  *)
(* a key of another user it returns false and leaves the stored keys       *)
(* unchanged; after a successful delete findUserByApiKey for the secret of *)
(* that key returns null.                                                  *)
(***************************************************************************)
OwnedBy(k, u) == apiKeys[k].exists /\ apiKeys[k].userId = u

C17_DeleteStep ==
  \* a record disappears only by the delete of its owner, which returns true
  /\ \A k \in KeyIds :
        (apiKeys[k].exists /\ ~apiKeys'[k].exists) =>
           /\ del.pc = "delete" /\ del.keyId = k
           /\ apiKeys[k].userId = del.userId
           /\ del'.result = "true"
  \* a call for a missing or foreign key answers false and changes no record
  /\ (del.pc \in {"idle", "done"} /\ del' # del) =>
        /\ del'.result = "false" => (~OwnedBy(del'.keyId, del'.userId) /\ apiKeys' = apiKeys)
        /\ ~OwnedBy(del'.keyId, del'.userId) =>
              (del'.result \in {"false", "threw"} /\ del'.pc = "done" /\ apiKeys' = apiKeys)
  \* once the delete returned true, a lookup of the key's secret finds nothing
  /\ (find.pc \in {"idle", "done"} /\ find' # find
        /\ \E k \in deletedOk : find'.apiKey = Secret(k)) =>
        (find'.pc = "done" /\ find'.result \in {"null", "threw"})
  /\ (find.pc = "update" /\ find' # find /\ find.docId \in deletedOk) =>
        find'.result = "threw"

C17_DeleteApiKeyFrame == [][C17_DeleteStep]_vars

C17_Witness ==
  /\ del.pc = "done" /\ del.result = "true"
  /\ del.keyId \in deletedOk
  /\ find.pc = "done" /\ find.apiKey = Secret(del.keyId) /\ find.result = "null"
  /\ \E k \in KeyIds : apiKeys[k].exists /\ apiKeys[k].userId # del.userId

====
